---- MODULE Spec2Model ----
(***************************************************************************)
(* Model of the realtime connection hook useRealtimeConnection             *)
(* (frontend/src/hooks/useRealtimeConnection/index.ts, webrtc.ts) and of   *)
(* the event reconciler handleServerEvent (eventHandlers, README.md        *)
(* lines 176-389).                                                         *)
(*                                                                         *)
(* React state {isConnected, isConnecting, error, messages} is changed     *)
(* only through setState(updater).  An updater is applied either at once   *)
(* (React computes the first update of a clean fiber eagerly) or later,    *)
(* at the next render, in queue order; an updater that reads a ref reads   *)
(* the value the ref has when the updater is applied.                      *)
(***************************************************************************)
EXTENDS Integers, Sequences, FiniteSets, TLC

\* ---------------------------------------------------------------- bounds
MaxAttempts == 2
MaxQueue == 2
MaxReports == 1
MaxTime == 2
MaxMsgs == 3
MaxLen == 2
MaxFetches == 2
MaxRequests == 3
MaxSent == 2

\* ------------------------------------------------------------- constants
NULL == "null"
TimeoutMsg == "Connection timeout - please try again"
FailedMsg == "Connection failed"
AbortMsg == "Connection timeout - server took too long to respond"
DefaultConnectMsg == "Failed to connect"
MicDeniedMsg == "Permission denied"
SessionMsg == "Failed to create session"
ClosedPcMsg == "The RTCPeerConnection's signalingState is 'closed'."

Attempts == 1..MaxAttempts
Items == {"x", "y"}
NoEntry == 0
NoId == <<>>
NoUsage == "null"
NoCount == -1
CACHE_DURATION_MS == 300000

VARIABLES
  isConnected, isConnecting, error, messages,
  updateQueue,
  connectionRef, connectionTimeoutIdRef,
  currentAssistantMessageIdRef, pendingUserMessagesRef,
  phase, timer, audioElement, mediaStream, peerConnection, dataChannel,
  nAttempts, reportsInFlight, now, lastOp,
  turnSerial, turnText, closedTurns,
  cachedUsage, cacheTimestamp, usageFetches, usageRequests,
  sentEvents

stateVars == <<isConnected, isConnecting, error, messages>>
refVars == <<connectionRef, connectionTimeoutIdRef,
             currentAssistantMessageIdRef, pendingUserMessagesRef>>
rtcVars == <<audioElement, mediaStream, peerConnection, dataChannel>>
vars == <<isConnected, isConnecting, error, messages, updateQueue,
          connectionRef, connectionTimeoutIdRef,
          currentAssistantMessageIdRef, pendingUserMessagesRef,
          phase, timer, audioElement, mediaStream, peerConnection, dataChannel,
          nAttempts, reportsInFlight, now, lastOp,
          turnSerial, turnText, closedTurns,
          cachedUsage, cacheTimestamp, usageFetches, usageRequests,
          sentEvents>>

\* The usage cache of usage.ts (cachedUsage, cacheTimestamp), the fetchUsage
\* calls whose request is in flight, and the number of requests sent so far.
usageVars == <<cachedUsage, cacheTimestamp, usageFetches, usageRequests>>

\* History of the assistant turn in progress, kept for stating properties:
\* the serial number of the message the turn created (messages are numbered
\* in creation order, field n), the fragments received since, and the serial
\* numbers of the messages whose turn has been closed.
turnVars == <<turnSerial, turnText, closedTurns>>

\* ------------------------------------------------------- transcript ids
\* `${role}-${timestamp}` is kept as the pair <<role, timestamp>>, which is
\* what id.split("-") yields for a decimal Date.now().
MessageId(role, ts) == <<role, ts>>

\* parseInt(msg.id.split("-")[1] || "0")
MsgTimestamp(id) == IF Len(id) >= 2 THEN id[2] ELSE 0

EmptyPending == [i \in Items |-> NoEntry]

\* ------------------------------------------------------ state updaters
\* The record the updaters work on: the React state plus the pending-item
\* map, which the user-transcript updater changes while it runs.
World == [isConnected |-> isConnected, isConnecting |-> isConnecting,
          error |-> error, messages |-> messages,
          pend |-> pendingUserMessagesRef]

\* Variant of InsertIndex that also stops at an assistant message of the same
\* timestamp.
InsertIndexNotStrict(msgs, ts) ==
  LET hits == {i \in 1..Len(msgs) :
                 /\ msgs[i].role = "assistant"
                 /\ MsgTimestamp(msgs[i].id) >= ts}
  IN IF hits = {} THEN Len(msgs) + 1
     ELSE CHOOSE i \in hits : \A j \in hits : i <= j

\* first index i with an assistant message newer than ts, else length + 1
InsertIndex(msgs, ts) ==
  LET hits == {i \in 1..Len(msgs) :
                 /\ msgs[i].role = "assistant"
                 /\ MsgTimestamp(msgs[i].id) > ts}
  IN IF hits = {} THEN Len(msgs) + 1
     ELSE CHOOSE i \in hits : \A j \in hits : i <= j

\* Variant of InsertAt that puts the message at the end whatever the index.
InsertAtEnd(msgs, idx, m) == Append(msgs, m)

\* [...messages.slice(0, idx), m, ...messages.slice(idx)], idx counted from 1
InsertAt(msgs, idx, m) ==
  SubSeq(msgs, 1, idx - 1) \o <<m>> \o SubSeq(msgs, idx, Len(msgs))

\* Variant of AppendTo that puts the fragment in front.
AppendToFront(msgs, cur, delta) ==
  [i \in 1..Len(msgs) |->
     IF msgs[i].id = cur
     THEN [msgs[i] EXCEPT !.content = delta \o msgs[i].content]
     ELSE msgs[i]]

\* messages.map(msg => msg.id === cur ? {...msg, content: f(msg)} : msg)
AppendTo(msgs, cur, delta) ==
  [i \in 1..Len(msgs) |->
     IF msgs[i].id = cur
     THEN [msgs[i] EXCEPT !.content = msgs[i].content \o delta]
     ELSE msgs[i]]

OverwriteOf(msgs, cur, text) ==
  [i \in 1..Len(msgs) |->
     IF msgs[i].id = cur
     THEN [msgs[i] EXCEPT !.content = text]
     ELSE msgs[i]]

\* Variant of DisconnectUpdate that also empties the transcript and the error.
DisconnectUpdateClearing(w) ==
  [w EXCEPT !.isConnected = FALSE, !.isConnecting = FALSE,
            !.messages = <<>>, !.error = NULL]

\* disconnect: prev => ({...prev, isConnected: false, isConnecting: false})
DisconnectUpdate(w) ==
  [w EXCEPT !.isConnected = FALSE, !.isConnecting = FALSE]

\* Variant of AddMessageUpdate that puts the message in front.
AddMessageUpdateInFront(w, message) ==
  [w EXCEPT !.messages = <<message>> \o w.messages]

\* addMessage: prev => ({...prev, messages: [...prev.messages, message]})
AddMessageUpdate(w, message) ==
  [w EXCEPT !.messages = Append(w.messages, message)]

\* One setState updater applied to w; cur is the value of
\* currentAssistantMessageIdRef at the moment the updater runs.
ApplyUpdate(u, w, cur) ==
  CASE u.k = "connectGuard" ->
         IF w.isConnecting \/ w.isConnected THEN w
         ELSE [w EXCEPT !.isConnecting = TRUE, !.error = NULL]
    [] u.k = "timeout" ->
         [w EXCEPT !.isConnecting = FALSE, !.isConnected = FALSE,
                   !.error = TimeoutMsg]
    [] u.k = "disconnect" -> DisconnectUpdate(w)
    [] u.k = "limit" ->
         [w EXCEPT !.error = u.msg]
    [] u.k = "connected" ->
         [w EXCEPT !.isConnected = TRUE, !.isConnecting = FALSE,
                   !.error = NULL]
    [] u.k = "terminal" ->
         [w EXCEPT !.isConnected = FALSE, !.isConnecting = FALSE,
                   !.error = u.msg]
    [] u.k = "connecting" ->
         [w EXCEPT !.isConnecting = TRUE]
    [] u.k = "catch" ->
         [w EXCEPT !.isConnecting = FALSE, !.isConnected = FALSE,
                   !.error = u.msg]
    [] u.k = "addMessage" -> AddMessageUpdate(w, u.message)
    [] u.k = "insertUser" ->
         [w EXCEPT !.messages =
                     InsertAt(w.messages, InsertIndex(w.messages, u.ts),
                              [id |-> MessageId("user", u.ts), role |-> "user",
                               content |-> u.transcript, n |-> u.n]),
                   !.pend = [w.pend EXCEPT ![u.item] = NoEntry]]
    [] u.k = "appendDelta" ->
         IF \E i \in 1..Len(w.messages) : w.messages[i].id = cur
         THEN [w EXCEPT !.messages = AppendTo(w.messages, cur, u.delta)]
         ELSE w
    [] u.k = "overwrite" ->
         [w EXCEPT !.messages = OverwriteOf(w.messages, cur, u.transcript)]

RECURSIVE ApplyAll(_, _, _)
ApplyAll(q, w, cur) ==
  IF q = <<>> THEN w
  ELSE ApplyAll(Tail(q), ApplyUpdate(Head(q), w, cur), cur)

\* setState(u) called with React in condition r = [w, q]: the update is
\* queued, or, when nothing is queued, may be computed eagerly.
SetState(r, u, cur) ==
  {[r EXCEPT !.q = Append(r.q, u)]} \cup
  (IF r.q = <<>> THEN {[r EXCEPT !.w = ApplyUpdate(u, r.w, cur)]} ELSE {})

React == [w |-> World, q |-> updateQueue]

Commit(r) ==
  /\ isConnected' = r.w.isConnected
  /\ isConnecting' = r.w.isConnecting
  /\ error' = r.w.error
  /\ messages' = r.w.messages
  /\ pendingUserMessagesRef' = r.w.pend
  /\ updateQueue' = r.q

\* The React state once every queued update has been applied.
Settled == ApplyAll(updateQueue, World, currentAssistantMessageIdRef)

\* React renders: the queued updaters run in order.
Render ==
  /\ updateQueue # <<>>
  /\ Commit([w |-> Settled, q |-> <<>>])
  /\ lastOp' = [op |-> "render"]
  /\ UNCHANGED <<connectionRef, connectionTimeoutIdRef,
                 currentAssistantMessageIdRef, phase, timer, rtcVars,
                 nAttempts, reportsInFlight, now, usageVars, sentEvents, turnVars>>

\* --------------------------------------------------- transport resources
\* cleanupWebRTC(connection): null is a no-op; otherwise closes the data
\* channel and the peer connection, stops the tracks, removes the sink.
CleanupRtc(c) ==
  IF c = 0 THEN UNCHANGED rtcVars
  ELSE /\ dataChannel' = [dataChannel EXCEPT ![c] = "closed"]
       /\ peerConnection' = [peerConnection EXCEPT ![c] = "closed"]
       /\ mediaStream' = [mediaStream EXCEPT ![c] = "stopped"]
       /\ audioElement' = [audioElement EXCEPT ![c] = "removed"]

\* Variant of ClearedTimer that leaves the timer running.
NotClearedTimer == timer

\* if (connectionTimeoutIdRef.current) clearTimeout(...): the timer function
\* after the call (clearing a timer that already ran changes nothing).
ClearedTimer ==
  IF connectionTimeoutIdRef = 0 THEN timer
  ELSE [timer EXCEPT ![connectionTimeoutIdRef] =
          IF @ = "pending" THEN "cleared" ELSE @]

\* Body of disconnect(), entered with React in condition r0, except for the
\* timer function, which the caller sets from ClearedTimer.
DisconnectBody(r0) ==
  /\ CleanupRtc(connectionRef)
  /\ connectionRef' = 0
  /\ connectionTimeoutIdRef' = 0
  /\ currentAssistantMessageIdRef' = NoId
  /\ turnSerial' = 0
  /\ turnText' = ""
  /\ \E r1 \in SetState([r0 EXCEPT !.w.pend = EmptyPending],
                        [k |-> "disconnect"], NoId) : Commit(r1)

\* ------------------------------------------------------------ operations
disconnect ==
  /\ Len(updateQueue) < MaxQueue
  /\ DisconnectBody(React)
  /\ timer' = ClearedTimer
  /\ lastOp' = [op |-> "disconnect"]
  /\ UNCHANGED <<phase, nAttempts, reportsInFlight, now, usageVars, sentEvents, closedTurns>>

\* connect(), up to its first suspension (await getUserMedia inside
\* createWebRTCConnection).  The early return reads the live transport state.
connect ==
  IF /\ connectionRef # 0
     /\ peerConnection[connectionRef] \in {"connected", "connecting"}
  THEN /\ lastOp' = [op |-> "connectNoop"]
       /\ UNCHANGED <<stateVars, updateQueue, refVars, phase, timer, rtcVars,
                      nAttempts, reportsInFlight, now, usageVars, sentEvents, turnVars>>
  ELSE /\ nAttempts < MaxAttempts
       /\ Len(updateQueue) < MaxQueue
       /\ LET a == nAttempts + 1 IN
            /\ \E r1 \in SetState(React, [k |-> "connectGuard"],
                                  currentAssistantMessageIdRef) : Commit(r1)
            /\ timer' = [timer EXCEPT ![a] = "pending"]
            /\ connectionTimeoutIdRef' = a
            /\ audioElement' = [audioElement EXCEPT ![a] = "attached"]
            /\ phase' = [phase EXCEPT ![a] = "mic"]
            /\ nAttempts' = a
       /\ lastOp' = [op |-> "connect"]
       /\ UNCHANGED <<connectionRef, currentAssistantMessageIdRef,
                      mediaStream, peerConnection, dataChannel,
                      reportsInFlight, now, usageVars, sentEvents, turnVars>>

\* The 45 s timer of attempt a runs its callback.
ConnectionTimeout(a) ==
  /\ timer[a] = "pending"
  /\ Len(updateQueue) < MaxQueue
  /\ IF connectionRef = 0 \/ peerConnection[connectionRef] # "connected"
     THEN /\ \E r0 \in SetState(React, [k |-> "timeout"],
                                currentAssistantMessageIdRef) :
               DisconnectBody(r0)
          /\ timer' = [ClearedTimer EXCEPT ![a] = "fired"]
     ELSE /\ timer' = [timer EXCEPT ![a] = "expired"]
          /\ UNCHANGED <<stateVars, updateQueue, refVars, rtcVars,
                         turnSerial, turnText>>
  /\ lastOp' = [op |-> "timeout"]
  /\ UNCHANGED <<phase, nAttempts, reportsInFlight, now, usageVars, sentEvents, closedTurns>>

\* catch block of connect() for attempt a, with the message it derives.
ConnectCatch(a, msg) ==
  /\ timer' = ClearedTimer
  /\ connectionTimeoutIdRef' = 0
  /\ \E r1 \in SetState(React, [k |-> "catch", msg |-> msg],
                        currentAssistantMessageIdRef) : Commit(r1)
  /\ CleanupRtc(connectionRef)
  /\ connectionRef' = 0
  /\ phase' = [phase EXCEPT ![a] = "failed"]
  /\ lastOp' = [op |-> "catch"]
  /\ UNCHANGED <<currentAssistantMessageIdRef, nAttempts, reportsInFlight, now, usageVars, sentEvents,
                 turnVars>>

\* error instanceof Error ? (AbortError ? abort text : error.message)
\*                        : "Failed to connect"
CatchMessage(kind, message) ==
  IF kind = "AbortError" THEN AbortMsg
  ELSE IF kind = "Error" THEN message
  ELSE DefaultConnectMsg

\* getUserMedia rejects: createWebRTCConnection throws into the catch block.
MicDenied(a) ==
  /\ phase[a] = "mic"
  /\ Len(updateQueue) < MaxQueue
  /\ ConnectCatch(a, CatchMessage("Error", MicDeniedMsg))

\* getUserMedia resolves: the rest of createWebRTCConnection runs, the
\* connection is stored and establishConnection starts its request.
MicGranted(a) ==
  /\ phase[a] = "mic"
  /\ mediaStream' = [mediaStream EXCEPT ![a] = "live"]
  /\ peerConnection' = [peerConnection EXCEPT ![a] = "new"]
  /\ dataChannel' = [dataChannel EXCEPT ![a] = "connecting"]
  /\ connectionRef' = a
  /\ phase' = [phase EXCEPT ![a] = "signaling"]
  /\ lastOp' = [op |-> "micGranted"]
  /\ UNCHANGED <<stateVars, updateQueue, connectionTimeoutIdRef,
                 currentAssistantMessageIdRef, pendingUserMessagesRef,
                 timer, audioElement, nAttempts, reportsInFlight, now, usageVars, sentEvents,
                 turnVars>>

\* The session endpoint answers 2xx; setRemoteDescription rejects on a peer
\* connection that has been closed meanwhile.
SignalingOk(a) ==
  /\ phase[a] = "signaling"
  /\ Len(updateQueue) < MaxQueue
  /\ IF peerConnection[a] = "closed"
     THEN ConnectCatch(a, CatchMessage("Error", ClosedPcMsg))
     ELSE /\ phase' = [phase EXCEPT ![a] = "done"]
          /\ lastOp' = [op |-> "signalingOk"]
          /\ UNCHANGED <<stateVars, updateQueue, refVars, timer, rtcVars,
                         nAttempts, reportsInFlight, now, usageVars, sentEvents, turnVars>>

\* establishConnection throws: abort after 30 s, an Error built from the
\* response, or a value that is not an Error.
SignalingFailed(a, kind) ==
  /\ phase[a] = "signaling"
  /\ Len(updateQueue) < MaxQueue
  /\ ConnectCatch(a, CatchMessage(kind, SessionMsg))

\* ------------------------------------------------- signaling error texts
\* JSON values as far as establishConnection looks at them: the type tag, the
\* text of a string, and for an object its message member.
JUndefined == [t |-> "undefined", s |-> ""]
JNull == [t |-> "null", s |-> ""]
JString(x) == [t |-> "string", s |-> x]
JObject(message) == [t |-> "object", s |-> "", message |-> message]

\* typeof v (null is an object) and the truthiness of v
TypeOf(v) == IF v.t = "null" THEN "object" ELSE v.t
Truthy(v) == v.t = "object" \/ (v.t = "string" /\ v.s # "")

Fallback429Msg == "Usage limit reached. Resets in 24 hours."
UnknownErrorMsg == "Unknown error"
NullMessageMsg == "Cannot read properties of null (reading 'message')"

\* Response bodies: text that is not JSON (the empty body included), or a
\* JSON object with its detail and error members.
Details ==
  {JUndefined, JNull, JString(""), JString("plain text"),
   JObject(JUndefined), JObject(JString("")),
   JObject(JString("Quota exceeded"))}
Bodies ==
  {[json |-> FALSE, text |-> x] : x \in {"", "<html>"}}
  \cup {[json |-> TRUE, detail |-> d, error |-> e] :
          d \in Details, e \in {JUndefined, JString("boom")}}
ErrorStatuses == {429, 500}

\* await response.json().catch(() => ({ detail: "Unknown error" }))
ErrorData(body) ==
  IF body.json THEN body
  ELSE [json |-> TRUE, detail |-> JString(UnknownErrorMsg), error |-> JUndefined]

\* The message of the Error establishConnection throws for a response that
\* is not ok.  Reading .message of a null detail raises a TypeError where the
\* read is not guarded by ?. .
SessionError(status, body) ==
  LET errorData == ErrorData(body)
      detail == errorData.detail
  IN IF status = 429 THEN
       IF TypeOf(detail) = "object" /\ detail.t = "null" THEN NullMessageMsg
       ELSE IF TypeOf(detail) = "object" /\ Truthy(detail.message)
            THEN detail.message.s
       ELSE IF TypeOf(detail) = "string" THEN detail.s
       ELSE Fallback429Msg
     ELSE
       IF TypeOf(detail) = "object" /\ detail.t # "null"
            /\ Truthy(detail.message)
       THEN detail.message.s
       ELSE IF TypeOf(detail) = "string" /\ Truthy(detail) THEN detail.s
       ELSE IF Truthy(errorData.error) THEN errorData.error.s
       ELSE SessionMsg

\* The session endpoint answers attempt a's request with a status that is
\* not ok: establishConnection throws into the catch block of connect().
SessionResponse(a, status, body) ==
  /\ phase[a] = "signaling"
  /\ Len(updateQueue) < MaxQueue
  /\ ConnectCatch(a, CatchMessage("Error", SessionError(status, body)))

\* Variant of TerminalMsg that reports every ending as a failure.
TerminalMsgAlways(s) == FailedMsg

\* error: connectionState === "failed" ? "Connection failed" : null
TerminalMsg(s) == IF s = "failed" THEN FailedMsg ELSE NULL

\* onconnectionstatechange of attempt a's peer connection, reporting s.
\* A failed or closed transport takes its data channel down with it.
ConnectionStateChange(a, s) ==
  /\ phase[a] = "done"
  /\ peerConnection[a] \notin {"none", "closed", s}
  /\ Len(updateQueue) < MaxQueue
  /\ peerConnection' = [peerConnection EXCEPT ![a] = s]
  /\ dataChannel' = [dataChannel EXCEPT ![a] =
                       IF s \in {"failed", "closed"} THEN "closed" ELSE @]
  /\ IF s = "connected"
     THEN /\ timer' = ClearedTimer
          /\ connectionTimeoutIdRef' = 0
          /\ \E r1 \in SetState(React, [k |-> "connected"],
                                currentAssistantMessageIdRef) : Commit(r1)
     ELSE IF s \in {"disconnected", "failed", "closed"}
     THEN /\ timer' = ClearedTimer
          /\ connectionTimeoutIdRef' = 0
          /\ \E r1 \in SetState(React,
                  [k |-> "terminal", msg |-> TerminalMsg(s)],
                  currentAssistantMessageIdRef) : Commit(r1)
     ELSE IF s = "connecting"
     THEN /\ \E r1 \in SetState(React, [k |-> "connecting"],
                                currentAssistantMessageIdRef) : Commit(r1)
          /\ UNCHANGED <<timer, connectionTimeoutIdRef>>
     ELSE UNCHANGED <<stateVars, updateQueue, pendingUserMessagesRef, timer,
                      connectionTimeoutIdRef>>
  /\ lastOp' = [op |-> "stateChange"]
  /\ UNCHANGED <<connectionRef, currentAssistantMessageIdRef, phase,
                 audioElement, mediaStream, nAttempts, reportsInFlight, now, usageVars, sentEvents,
                 turnVars>>

\* The data channel of a connected transport opens (onopen only logs).
DataChannelOpen(a) ==
  /\ dataChannel[a] = "connecting"
  /\ peerConnection[a] = "connected"
  /\ dataChannel' = [dataChannel EXCEPT ![a] = "open"]
  /\ lastOp' = [op |-> "channelOpen"]
  /\ UNCHANGED <<stateVars, updateQueue, refVars, phase, timer, audioElement,
                 mediaStream, peerConnection, nAttempts, reportsInFlight, now, usageVars, sentEvents,
                 turnVars>>

\* ------------------------------------------------------------ sendEvent
\* Client events the caller sends, and JSON.stringify of one of them.
ClientEvents ==
  {[type |-> "response.create"], [type |-> "input_audio_buffer.clear"]}

Stringify(event) == "{\"type\":\"" \o event.type \o "\"}"

\* Variant of ChannelReady that does not look at the channel's state.
ChannelReadyAnyState(c) == c # 0

\* connectionRef.current?.dataChannel &&
\*   connectionRef.current.dataChannel.readyState === "open"
ChannelReady(c) == c # 0 /\ dataChannel[c] = "open"

\* sendEvent(event): sentEvents is what has been written to the data
\* channels, in order, each entry with the channel it went to.
sendEvent(event) ==
  /\ IF ChannelReady(connectionRef)
     THEN /\ Len(sentEvents) < MaxSent
          /\ sentEvents' = Append(sentEvents,
                                  [channel |-> connectionRef,
                                   data |-> Stringify(event)])
          /\ lastOp' = [op |-> "sendEvent"]
     ELSE /\ sentEvents' = sentEvents
          /\ lastOp' = [op |-> "sendDropped"]
  /\ UNCHANGED <<stateVars, updateQueue, refVars, phase, timer, rtcVars,
                 nAttempts, reportsInFlight, now, turnVars, usageVars>>

\* ------------------------------------------------------ event reconciler
ItemAdded == "conversation.item.added"
UserTranscriptDone == "conversation.item.input_audio_transcription.completed"
AssistantDelta == "response.output_audio_transcript.delta"
AssistantDone == "response.output_audio_transcript.done"
ResponseDone == "response.done"
ItemCreated == "conversation.item.created"

\* Events of the reconciler's specification.  "" is a missing or empty
\* string field; NoCount is a missing token count, 0 a count of zero.  A response.done envelope carries at
\* most one assistant output item with an audio transcript.
RecEvents ==
  {[type |-> ItemAdded, role |-> r, id |-> i] :
      r \in {"user", "assistant"}, i \in Items}
  \cup {[type |-> UserTranscriptDone, transcript |-> t, item_id |-> i] :
      t \in {"", "u"}, i \in Items}
  \cup {[type |-> AssistantDelta, delta |-> d] : d \in {"", "a", "b"}}
  \cup {[type |-> AssistantDone, transcript |-> t] : t \in {"", "F"}}
  \cup {[type |-> ResponseDone, transcript |-> t, total_tokens |-> k] :
      t \in {"", "R"}, k \in {0}}
  \cup {[type |-> ItemCreated, role |-> r, text |-> t] :
      r \in {"user", "assistant"}, t \in {"", "T"}}
  \cup {[type |-> "session.updated"]}

\* Events of the connection specification: the ones that start a usage report.
ConnEvents == {[type |-> ResponseDone, transcript |-> "", total_tokens |-> 7]}

\* Serial number of the next message to be created.
NextSerial == Len(Settled.messages) + 1

AssistantMessage(text) ==
  [id |-> MessageId("assistant", now), role |-> "assistant",
   content |-> text, n |-> NextSerial]

\* Variant of Announces that records items of every role.
AnnouncesAnyRole(e) == e.id # ""

\* item?.role === "user" && item.id
Announces(e) == e.role = "user" /\ e.id # ""

\* Variant of PendingTimestamp that always takes the current time.
PendingTimestampNow(pend, item) == now

\* pendingUserMessagesRef.current.get(itemId)?.timestamp || Date.now()
PendingTimestamp(pend, item) ==
  IF pend[item] # NoEntry THEN pend[item] ELSE now

\* Variant of ReportsUsage that reports after every response.
ReportsUsageAlways(e) == TRUE

\* if (response.response?.usage?.total_tokens): a missing count and a count
\* of zero are both falsy.
ReportsUsage(e) == e.total_tokens # NoCount /\ e.total_tokens # 0

\* Variant of AfterResponseDone that keeps the id when the envelope has no
\* transcript.
AfterResponseDoneIfTranscript(cur, e) == IF e.transcript # "" THEN NoId ELSE cur

\* currentAssistantMessageIdRef.current = null, the last statement of the
\* response.done branch.
AfterResponseDone(cur, e) == NoId

\* What handleServerEvent(e) does: the pending-item map after its synchronous
\* part, the updaters it hands to setState (none or one), the value it leaves
\* in currentAssistantMessageIdRef, whether it starts a usage report, and the
\* token count it passes to reportTokenUsage.
EventEffect(e) ==
  LET cur == currentAssistantMessageIdRef
      pend == pendingUserMessagesRef
      none == [pend |-> pend, upd |-> <<>>, cur |-> cur, report |-> FALSE,
               tokens |-> NoCount]
  IN
  IF e.type = ItemAdded THEN
    IF Announces(e)
    THEN [none EXCEPT !.pend = [pend EXCEPT ![e.id] = now]]
    ELSE none
  ELSE IF e.type = UserTranscriptDone THEN
    IF e.transcript # "" /\ e.item_id # ""
    THEN LET messageTimestamp == PendingTimestamp(pend, e.item_id)
         IN [none EXCEPT !.upd = <<[k |-> "insertUser", ts |-> messageTimestamp,
                                    transcript |-> e.transcript,
                                    item |-> e.item_id, n |-> NextSerial]>>]
    ELSE none
  ELSE IF e.type = AssistantDelta THEN
    IF e.delta # ""
    THEN IF cur = NoId
         THEN [none EXCEPT
                 !.cur = MessageId("assistant", now),
                 !.upd = <<[k |-> "addMessage",
                            message |-> AssistantMessage(e.delta)]>>]
         ELSE [none EXCEPT !.upd = <<[k |-> "appendDelta", delta |-> e.delta]>>]
    ELSE none
  ELSE IF e.type = AssistantDone THEN
    IF e.transcript # ""
    THEN IF cur # NoId
         THEN [none EXCEPT
                 !.upd = <<[k |-> "overwrite", transcript |-> e.transcript]>>,
                 !.cur = NoId]
         ELSE [none EXCEPT
                 !.upd = <<[k |-> "addMessage",
                            message |-> AssistantMessage(e.transcript)]>>]
    ELSE none
  ELSE IF e.type = ResponseDone THEN
    [none EXCEPT
       !.upd = IF cur # NoId /\ e.transcript # ""
               THEN <<[k |-> "overwrite", transcript |-> e.transcript]>>
               ELSE <<>>,
       !.report = ReportsUsage(e),
       !.tokens = IF ReportsUsage(e) THEN e.total_tokens ELSE NoCount,
       !.cur = AfterResponseDone(cur, e)]
  ELSE IF e.type = ItemCreated THEN
    IF e.role = "assistant" /\ e.text # ""
    THEN [none EXCEPT !.upd = <<[k |-> "addMessage",
                                 message |-> AssistantMessage(e.text)]>>]
    ELSE none
  ELSE none

\* An announcement of a user item, or a completed transcription of one.
IsUserItemEvent(e) ==
  \/ e.type = ItemAdded /\ e.role = "user" /\ e.id # ""
  \/ e.type = UserTranscriptDone /\ e.transcript # "" /\ e.item_id # ""

\* The event respects the order of its item: an announcement comes when the
\* item is not outstanding, a completion when it is announced and has not
\* been completed yet.
InOrder(e) ==
  LET item == IF e.type = ItemAdded THEN e.id ELSE e.item_id
      completing == \E k \in 1..Len(updateQueue) :
                       /\ updateQueue[k].k = "insertUser"
                       /\ updateQueue[k].item = item
  IN IF e.type = ItemAdded
     THEN pendingUserMessagesRef[item] = NoEntry /\ ~completing
     ELSE pendingUserMessagesRef[item] # NoEntry /\ ~completing

\* Bounds on what an event may add, so that the transcript stays finite.
WithinBounds(e, eff) ==
  /\ Len(updateQueue) < MaxQueue
  /\ (eff.upd # <<>> /\ eff.upd[1].k \in {"addMessage", "insertUser"})
        => Len(Settled.messages) < MaxMsgs
  /\ (eff.upd # <<>> /\ eff.upd[1].k = "appendDelta")
        => Len(turnText) < MaxLen
  /\ eff.report => reportsInFlight < MaxReports

\* handleServerEvent(e) called for a message on the open data channel of
\* attempt a.
handleServerEventBody(a, e) ==
  LET eff == EventEffect(e)
      r0 == [React EXCEPT !.w.pend = eff.pend]
      turnEnds == e.type = ResponseDone
                    \/ (e.type = AssistantDone /\ e.transcript # ""
                          /\ currentAssistantMessageIdRef # NoId)
      turnStarts == e.type = AssistantDelta /\ e.delta # ""
                      /\ currentAssistantMessageIdRef = NoId
  IN
  /\ dataChannel[a] = "open"
  /\ WithinBounds(e, eff)
  /\ IF eff.upd = <<>> THEN Commit(r0)
     ELSE \E r1 \in SetState(r0, eff.upd[1], currentAssistantMessageIdRef) :
             Commit(r1)
  /\ currentAssistantMessageIdRef' = eff.cur
  /\ reportsInFlight' = reportsInFlight + (IF eff.report THEN 1 ELSE 0)
  /\ turnSerial' = IF turnStarts THEN NextSerial
                   ELSE IF turnEnds THEN 0 ELSE turnSerial
  /\ turnText' = IF turnStarts THEN e.delta
                 ELSE IF turnEnds THEN ""
                 ELSE IF e.type = AssistantDelta THEN turnText \o e.delta
                 ELSE turnText
  /\ closedTurns' = IF turnEnds /\ turnSerial # 0
                    THEN closedTurns \cup {turnSerial} ELSE closedTurns
  /\ UNCHANGED <<connectionRef, connectionTimeoutIdRef, phase, timer, rtcVars,
                 nAttempts, now, usageVars, sentEvents>>

\* A message arrives on the open data channel of attempt a, parses as JSON
\* and is passed to handleServerEvent.
handleServerEvent(a, e) ==
  /\ handleServerEventBody(a, e)
  /\ lastOp' = [op |-> "event"]

\* Payloads of inbound channel messages: the JSON text of an event, or text
\* that is not JSON, such as the text of an event cut off before its end
\* (value is then what the complete text would have been).
ChannelEvents ==
  {[type |-> ItemAdded, role |-> "user", id |-> "x"],
   [type |-> UserTranscriptDone, transcript |-> "u", item_id |-> "x"],
   [type |-> AssistantDelta, delta |-> "a"],
   [type |-> AssistantDone, transcript |-> "F"],
   [type |-> ResponseDone, transcript |-> "R", total_tokens |-> 7],
   [type |-> ItemAdded, role |-> "assistant", id |-> "x"],
   [type |-> UserTranscriptDone, transcript |-> "", item_id |-> "x"],
   [type |-> AssistantDelta, delta |-> ""],
   [type |-> AssistantDone, transcript |-> ""],
   [type |-> ItemCreated, role |-> "user", text |-> "T"],
   [type |-> ItemCreated, role |-> "assistant", text |-> ""],
   [type |-> "session.updated"]}
NotJson ==
  {[json |-> FALSE, value |-> [type |-> AssistantDelta, delta |-> "a"]],
   [json |-> FALSE, value |-> [type |-> "session.updated"]]}
Payloads == {[json |-> TRUE, value |-> e] : e \in ChannelEvents} \cup NotJson

\* Variant of Parses that accepts every payload.
ParsesLeniently(payload) == TRUE

\* JSON.parse(event.data) returns (does not throw)
Parses(payload) == payload.json

\* onDataChannelMessage of attempt a: try { handleServerEvent(JSON.parse(
\* event.data)) } catch { console.error }
onDataChannelMessage(a, payload) ==
  IF Parses(payload)
  THEN /\ handleServerEventBody(a, payload.value)
       /\ lastOp' = [op |-> "message", type |-> payload.value.type]
  ELSE /\ dataChannel[a] = "open"
       /\ lastOp' = [op |-> "discarded"]
       /\ UNCHANGED <<stateVars, updateQueue, refVars, phase, timer, rtcVars,
                      nAttempts, reportsInFlight, now, turnVars, usageVars, sentEvents>>

\* Date.now() advances.
Tick ==
  /\ now < MaxTime
  /\ now' = now + 1
  /\ UNCHANGED <<stateVars, updateQueue, refVars, phase, timer, rtcVars,
                 nAttempts, reportsInFlight, lastOp, turnVars, usageVars, sentEvents>>

\* A usage report is answered without the limit being exceeded, or fails.
ReportSettled(resp) ==
  /\ reportsInFlight > 0
  /\ reportsInFlight' = reportsInFlight - 1
  /\ lastOp' = [op |-> IF resp.kind = "ok" THEN "reportSettled"
                       ELSE "reportFailed"]
  /\ UNCHANGED <<stateVars, updateQueue, refVars, phase, timer, rtcVars,
                 nAttempts, now, usageVars, sentEvents, turnVars>>

\* ------------------------------------------------------------ reset time
\* new Date(resetAt).getTime() - new Date().getTime(): a number of
\* milliseconds, or NaN when resetAt is no date (tokenUsage.ts calls the
\* callback without an argument, so that resetAt is undefined).
NaN == [nan |-> TRUE, ms |-> 0]
Millis(n) == [nan |-> FALSE, ms |-> n]

MsPerMinute == 60000
MsPerHour == 3600000

Digit(d) == SubSeq("0123456789", d + 1, d + 1)

RECURSIVE Decimal(_)
Decimal(n) == IF n < 10 THEN Digit(n) ELSE Decimal(n \div 10) \o Digit(n % 10)

\* formatResetTime, given the difference diff between the reset instant and
\* the current time.  Every comparison with NaN is false.
formatResetTime(diff) ==
  IF ~diff.nan /\ diff.ms <= 0 THEN "now"
  ELSE LET hours == diff.ms \div MsPerHour
           minutes == (diff.ms % MsPerHour) \div MsPerMinute
       IN IF ~diff.nan /\ hours > 0
          THEN "in " \o Decimal(hours) \o " hour"
                 \o (IF hours > 1 THEN "s" ELSE "")
                 \o (IF minutes > 0
                     THEN " and " \o Decimal(minutes) \o " minute"
                            \o (IF minutes > 1 THEN "s" ELSE "")
                     ELSE "")
          ELSE IF ~diff.nan /\ minutes > 0
          THEN "in " \o Decimal(minutes) \o " minute"
                 \o (IF minutes > 1 THEN "s" ELSE "")
          ELSE "in less than a minute"

\* `Usage limit reached. Please try again ${resetTime}.`
LimitMsg(resetTime) ==
  "Usage limit reached. Please try again " \o resetTime \o "."

\* Reset instants a limit-exceeded answer comes with: none, or one that is
\* 2 h 5 min ahead.
ResetInstants == {NaN, Millis(7500000)}

\* A usage report is answered with limit_exceeded: handleLimitExceeded runs.
handleLimitExceeded(resetAt) ==
  /\ reportsInFlight > 0
  /\ Len(updateQueue) < MaxQueue
  /\ reportsInFlight' = reportsInFlight - 1
  /\ \E r0 \in SetState(React,
                [k |-> "limit", msg |-> LimitMsg(formatResetTime(resetAt))],
                currentAssistantMessageIdRef) : DisconnectBody(r0)
  /\ timer' = ClearedTimer
  /\ lastOp' = [op |-> "limitExceeded"]
  /\ UNCHANGED <<phase, nAttempts, now, usageVars, sentEvents, closedTurns>>

\* What the fetch of a usage report can settle with: a network error, a
\* status that is not ok, an ok answer whose body cannot be read, or an ok
\* answer with its limit_exceeded flag and reset instant.
ReportResponses ==
  {[kind |-> "network", limit_exceeded |-> FALSE, reset_at |-> NaN],
   [kind |-> "unreadable", limit_exceeded |-> FALSE, reset_at |-> NaN]}
  \cup {[kind |-> "status", limit_exceeded |-> l, reset_at |-> NaN] :
          l \in BOOLEAN}
  \cup {[kind |-> "ok", limit_exceeded |-> l, reset_at |-> r] :
          l \in BOOLEAN, r \in ResetInstants}

\* Variant of LimitExceededIn that reads the flag whatever the status is.
LimitExceededIgnoringStatus(resp) ==
  resp.kind \in {"ok", "status"} /\ resp.limit_exceeded

\* if (response.ok) { data = await response.json(); if (data.limit_exceeded)
LimitExceededIn(resp) == resp.kind = "ok" /\ resp.limit_exceeded

\* reportTokenUsage after its fetch has settled with resp.
ReportAnswered(resp) ==
  IF LimitExceededIn(resp) THEN handleLimitExceeded(resp.reset_at)
  ELSE ReportSettled(resp)

\* ------------------------------------------------------------ usage cache
\* Bodies of an ok answer of the usage endpoint, and the instants at which
\* the calls of the model are made (Date.now() in milliseconds).
UsageData == {"u1", "u2"}
UsageInstants == {1, 2, 300000, 300001, 300002, 600002}
FetchResponses ==
  {[ok |-> FALSE, data |-> NoUsage]} \cup {[ok |-> TRUE, data |-> d] : d \in UsageData}

\* cachedUsage && (now - cacheTimestamp) < CACHE_DURATION_MS
CacheFresh(t) ==
  cachedUsage # NoUsage /\ (t - cacheTimestamp) < CACHE_DURATION_MS

\* fetchUsage(forceRefresh), up to its await: the cached value is returned, or
\* a request is sent, its call time kept for the cache timestamp.
fetchUsage(forceRefresh) ==
  IF ~forceRefresh /\ CacheFresh(now)
  THEN /\ lastOp' = [op |-> "fetchUsageCached"]
       /\ UNCHANGED <<stateVars, updateQueue, refVars, phase, timer, rtcVars,
                      nAttempts, reportsInFlight, now, turnVars, usageVars, sentEvents>>
  ELSE /\ Len(usageFetches) < MaxFetches
       /\ usageRequests < MaxRequests
       /\ usageFetches' = Append(usageFetches,
                                 [at |-> now, forced |-> forceRefresh])
       /\ usageRequests' = usageRequests + 1
       /\ lastOp' = [op |-> "fetchUsageRequest"]
       /\ UNCHANGED <<stateVars, updateQueue, refVars, phase, timer, rtcVars,
                      nAttempts, reportsInFlight, now, turnVars,
                      cachedUsage, cacheTimestamp, sentEvents>>

\* The request of the i-th call in flight settles with resp: an ok answer is
\* stored with the time of the call; anything else stores nothing.
FetchAnswered(i, resp) ==
  /\ i \in 1..Len(usageFetches)
  /\ usageFetches' = SubSeq(usageFetches, 1, i - 1)
                       \o SubSeq(usageFetches, i + 1, Len(usageFetches))
  /\ IF resp.ok
     THEN /\ cachedUsage' = resp.data
          /\ cacheTimestamp' = usageFetches[i].at
     ELSE UNCHANGED <<cachedUsage, cacheTimestamp>>
  /\ lastOp' = [op |-> "fetchAnswered"]
  /\ UNCHANGED <<stateVars, updateQueue, refVars, phase, timer, rtcVars,
                 nAttempts, reportsInFlight, now, turnVars, usageRequests,
                 sentEvents>>

\* reportTokenUsage of usage.ts receives an ok answer: the cache takes its
\* usage data with the current time.
ReportStored(data) ==
  /\ cachedUsage' = data
  /\ cacheTimestamp' = now
  /\ lastOp' = [op |-> "reportStored"]
  /\ UNCHANGED <<stateVars, updateQueue, refVars, phase, timer, rtcVars,
                 nAttempts, reportsInFlight, now, turnVars,
                 usageFetches, usageRequests, sentEvents>>

\* Time passes up to the instant t.
AdvanceTo(t) ==
  /\ t > now
  /\ now' = t
  /\ UNCHANGED <<stateVars, updateQueue, refVars, phase, timer, rtcVars,
                 nAttempts, reportsInFlight, lastOp, turnVars, usageVars, sentEvents>>

\* ------------------------------------------------------- specifications
Init ==
  /\ isConnected = FALSE
  /\ isConnecting = FALSE
  /\ error = NULL
  /\ messages = <<>>
  /\ updateQueue = <<>>
  /\ connectionRef = 0
  /\ connectionTimeoutIdRef = 0
  /\ currentAssistantMessageIdRef = NoId
  /\ pendingUserMessagesRef = EmptyPending
  /\ phase = [a \in Attempts |-> "idle"]
  /\ timer = [a \in Attempts |-> "none"]
  /\ audioElement = [a \in Attempts |-> "none"]
  /\ mediaStream = [a \in Attempts |-> "none"]
  /\ peerConnection = [a \in Attempts |-> "none"]
  /\ dataChannel = [a \in Attempts |-> "none"]
  /\ nAttempts = 0
  /\ reportsInFlight = 0
  /\ now = 1
  /\ lastOp = [op |-> "init"]
  /\ turnSerial = 0
  /\ turnText = ""
  /\ closedTurns = {}
  /\ cachedUsage = NoUsage
  /\ cacheTimestamp = 0
  /\ usageFetches = <<>>
  /\ usageRequests = 0
  /\ sentEvents = <<>>

Next ==
  \/ connect
  \/ disconnect
  \/ Render
  \/ \E a \in Attempts : ConnectionTimeout(a)
  \/ \E a \in Attempts : MicDenied(a)
  \/ \E a \in Attempts : MicGranted(a)
  \/ \E a \in Attempts : SignalingOk(a)
  \/ \E a \in Attempts, kind \in {"AbortError", "Error", "other"} :
        SignalingFailed(a, kind)
  \/ \E a \in Attempts,
        s \in {"new", "connecting", "connected", "disconnected", "failed",
               "closed"} : ConnectionStateChange(a, s)
  \/ \E a \in Attempts : DataChannelOpen(a)
  \/ \E a \in Attempts, e \in ConnEvents : handleServerEvent(a, e)
  \/ \E resp \in ReportResponses : ReportAnswered(resp)

Spec == Init /\ [][Next]_vars

\* The reconciler on its own: one session that is connected, with its data
\* channel open, receiving events while the clock advances.
InitRec ==
  /\ isConnected = TRUE
  /\ isConnecting = FALSE
  /\ error = NULL
  /\ messages = <<>>
  /\ updateQueue = <<>>
  /\ connectionRef = 1
  /\ connectionTimeoutIdRef = 0
  /\ currentAssistantMessageIdRef = NoId
  /\ pendingUserMessagesRef = EmptyPending
  /\ phase = [a \in Attempts |-> IF a = 1 THEN "done" ELSE "idle"]
  /\ timer = [a \in Attempts |-> IF a = 1 THEN "cleared" ELSE "none"]
  /\ audioElement = [a \in Attempts |-> IF a = 1 THEN "attached" ELSE "none"]
  /\ mediaStream = [a \in Attempts |-> IF a = 1 THEN "live" ELSE "none"]
  /\ peerConnection = [a \in Attempts |-> IF a = 1 THEN "connected" ELSE "none"]
  /\ dataChannel = [a \in Attempts |-> IF a = 1 THEN "open" ELSE "none"]
  /\ nAttempts = 1
  /\ reportsInFlight = 0
  /\ now = 1
  /\ lastOp = [op |-> "channelOpen"]
  /\ turnSerial = 0
  /\ turnText = ""
  /\ closedTurns = {}
  /\ cachedUsage = NoUsage
  /\ cacheTimestamp = 0
  /\ usageFetches = <<>>
  /\ usageRequests = 0
  /\ sentEvents = <<>>

NextRec ==
  \/ \E e \in RecEvents : handleServerEvent(1, e)
  \/ Render
  \/ Tick

SpecRec == InitRec /\ [][NextRec]_vars

\* The reconciler receiving only event orders in which every user item is
\* announced once and then completed once.
NextCausal ==
  \/ \E e \in RecEvents :
        /\ IsUserItemEvent(e) => InOrder(e)
        /\ handleServerEvent(1, e)
  \/ Render
  \/ Tick

SpecCausal == InitRec /\ [][NextCausal]_vars

\* One connected session with its transcript: events arrive, the transport
\* may fail or drop, and the caller may disconnect.
SessionEvents ==
  {[type |-> ItemAdded, role |-> "user", id |-> "x"],
   [type |-> UserTranscriptDone, transcript |-> "u", item_id |-> "x"],
   [type |-> AssistantDelta, delta |-> "a"],
   [type |-> AssistantDelta, delta |-> "b"],
   [type |-> AssistantDone, transcript |-> "F"],
   [type |-> ResponseDone, transcript |-> "", total_tokens |-> 0]}

NextSession ==
  \/ \E e \in SessionEvents : handleServerEvent(1, e)
  \/ Render
  \/ Tick
  \/ disconnect
  \/ \E s \in {"failed", "disconnected"} : ConnectionStateChange(1, s)

SpecSession == InitRec /\ [][NextSession]_vars

\* connect() up to the answer of the session endpoint, for the texts of its
\* failures.
NextSignaling ==
  \/ connect
  \/ Render
  \/ \E a \in Attempts : MicGranted(a)
  \/ \E a \in Attempts, status \in ErrorStatuses, body \in Bodies :
        SessionResponse(a, status, body)

SpecSignaling == Init /\ [][NextSignaling]_vars

\* The usage queries of a page: fetchUsage calls, their answers, usage
\* reports that store their answer, and the passing of time.
NextUsage ==
  \/ \E forceRefresh \in BOOLEAN : fetchUsage(forceRefresh)
  \/ \E i \in 1..MaxFetches, resp \in FetchResponses : FetchAnswered(i, resp)
  \/ \E data \in UsageData : ReportStored(data)
  \/ \E t \in UsageInstants : AdvanceTo(t)

SpecUsage == Init /\ [][NextUsage]_vars

\* A connected session receiving channel messages, some of them not JSON.
NextChannel ==
  \/ \E payload \in Payloads : onDataChannelMessage(1, payload)
  \/ Render
  \/ Tick
  \/ \E resp \in ReportResponses : ReportAnswered(resp)

SpecChannel == InitRec /\ [][NextChannel]_vars

\* A connected session whose transport changes state while a transcript is
\* being received.
TransportStates ==
  {"new", "connecting", "connected", "disconnected", "failed", "closed"}

NextTransport ==
  \/ \E s \in TransportStates : ConnectionStateChange(1, s)
  \/ \E d \in {"a", "b"} :
        handleServerEvent(1, [type |-> AssistantDelta, delta |-> d])
  \/ Render

SpecTransport == InitRec /\ [][NextTransport]_vars

\* A connected session whose usage reports come back with the limit exceeded,
\* for reset instants of every kind: none, past, the present instant, and
\* ahead by less than a minute, by minutes, by hours.
ResetCases ==
  {NaN} \cup {Millis(n) : n \in {-1000, 0, 1, 59999, 60000, 120000,
                                 3599999, 3600000, 3660000, 7200000,
                                 7500000, 86400000}}

NextReset ==
  \/ \E e \in ConnEvents \cup {[type |-> AssistantDelta, delta |-> "a"]} :
        handleServerEvent(1, e)
  \/ \E resetAt \in ResetCases : handleLimitExceeded(resetAt)
  \/ Render
  \/ Tick

SpecReset == InitRec /\ [][NextReset]_vars

\* A session being set up and taken down while the caller sends events.
NextSend ==
  \/ \E event \in ClientEvents : sendEvent(event)
  \/ connect
  \/ disconnect
  \/ Render
  \/ \E a \in Attempts : MicGranted(a)
  \/ \E a \in Attempts : SignalingOk(a)
  \/ \E a \in Attempts, s \in {"connected", "disconnected", "failed"} :
        ConnectionStateChange(a, s)
  \/ \E a \in Attempts : DataChannelOpen(a)

SpecSend == Init /\ [][NextSend]_vars

\* A connected session receiving assistant turns that end with response.done
\* envelopes of every kind (with and without a transcript; without a token
\* count, with a count of zero, with a positive count), user items, and the
\* answers of the usage reports.
TurnEvents ==
  {[type |-> ItemAdded, role |-> "user", id |-> "x"],
   [type |-> UserTranscriptDone, transcript |-> "u", item_id |-> "x"],
   [type |-> AssistantDelta, delta |-> "a"],
   [type |-> AssistantDone, transcript |-> "F"],
   [type |-> ItemCreated, role |-> "assistant", text |-> "T"],
   [type |-> "session.updated"]}
  \cup {[type |-> ResponseDone, transcript |-> t, total_tokens |-> k] :
          t \in {"", "R"}, k \in {NoCount, 0, 7}}

NextTurns ==
  \/ \E e \in TurnEvents : handleServerEvent(1, e)
  \/ Render
  \/ Tick
  \/ \E resp \in ReportResponses : ReportAnswered(resp)

SpecTurns == InitRec /\ [][NextTurns]_vars

\* Connect attempts and the calls of disconnect() that come while they are
\* suspended: the microphone is granted or denied and the session endpoint
\* answers whenever they do, before or after the call.
NextCancel ==
  \/ connect
  \/ disconnect
  \/ Render
  \/ \E a \in Attempts : MicGranted(a)
  \/ \E a \in Attempts : MicDenied(a)
  \/ \E a \in Attempts : SignalingOk(a)
  \/ \E a \in Attempts, s \in {"connecting", "connected", "failed"} :
        ConnectionStateChange(a, s)

SpecCancel == Init /\ [][NextCancel]_vars

\* Sessions that follow one another: a session is set up, receives events,
\* ends through its transport failing or through disconnect(), and the
\* caller connects again.
NextReconnect ==
  \/ connect
  \/ disconnect
  \/ Render
  \/ \E a \in Attempts : MicGranted(a)
  \/ \E a \in Attempts : SignalingOk(a)
  \/ \E a \in Attempts, s \in {"connected", "failed"} :
        ConnectionStateChange(a, s)
  \/ \E a \in Attempts : DataChannelOpen(a)
  \/ \E a \in Attempts,
        e \in {[type |-> AssistantDelta, delta |-> "a"],
               [type |-> ItemAdded, role |-> "user", id |-> "x"]} :
        handleServerEvent(a, e)

SpecReconnect == Init /\ [][NextReconnect]_vars

\* ================================================================ claims
\* C1: isConnected and isConnecting are never both true.
C1_MutualExclusion == ~(isConnected /\ isConnecting)

\* An earlier connect() is suspended at microphone acquisition or at the
\* signaling request, or the stored transport is connected.
Busy ==
  \/ \E a \in Attempts : phase[a] \in {"mic", "signaling"}
  \/ connectionRef # 0 /\ peerConnection[connectionRef] = "connected"

\* C2: a connect() call made while an earlier one is in progress, or while
\* connected, starts no timer, opens no transport and sends no request.
C2_ConnectWhileBusyIsNoop ==
  [][(Busy /\ connect)
       => UNCHANGED <<timer, phase, rtcVars, nAttempts>>]_vars

\* Nothing that attempt a acquired is still held.
Released(a) ==
  /\ audioElement[a] # "attached"
  /\ mediaStream[a] # "live"
  /\ peerConnection[a] \in {"none", "closed"}
  /\ dataChannel[a] \in {"none", "closed"}

\* C3: when the 45 s timer finds the transport not connected, the state
\* becomes not connecting, not connected, with the timeout error; and once
\* connect() of that attempt has run to its end, everything the attempt
\* acquired is released.
C3_TimeoutReleases ==
  [][/\ \A a \in Attempts :
          (/\ ConnectionTimeout(a)
           /\ (connectionRef = 0 \/ peerConnection[connectionRef] # "connected"))
          => /\ ~Settled'.isConnecting
             /\ ~Settled'.isConnected
             /\ Settled'.error = TimeoutMsg
     /\ \A a \in Attempts :
          (timer'[a] = "fired" /\ phase'[a] \in {"done", "failed"})
          => Released(a)']_vars

EmbeddedTs(m) == m.id[2]

\* m is an assistant message whose embedded timestamp is strictly after T.
NewerAssistant(m, T) == m.role = "assistant" /\ EmbeddedTs(m) > T

\* after is before with one user message for (T, text) inserted right before
\* the first assistant message newer than T, or at the end when there is
\* none; every other message is the same and in the same order.
InsertedByRule(before, after, T, text) ==
  /\ Len(after) = Len(before) + 1
  /\ \E p \in 1..Len(after) :
       /\ after[p].id = <<"user", T>>
       /\ after[p].role = "user"
       /\ after[p].content = text
       /\ \A i \in 1..(p - 1) : after[i] = before[i] /\ ~NewerAssistant(before[i], T)
       /\ \A i \in (p + 1)..Len(after) : after[i] = before[i - 1]
       /\ p <= Len(before) => NewerAssistant(before[p], T)

\* C4: a completed user transcription for item X puts a message user-<T>,
\* T being X's announcement time or else the current time, immediately before
\* the first assistant message with an embedded timestamp strictly greater
\* than T, or at the end; all other messages keep content and order.
C4_InsertionRule ==
  [][\A e \in RecEvents :
       (/\ e.type = UserTranscriptDone
        /\ e.transcript # ""
        /\ <<messages, updateQueue>>' # <<messages, updateQueue>>
        /\ handleServerEvent(1, e))
       => InsertedByRule(Settled.messages, Settled'.messages,
                         IF pendingUserMessagesRef[e.item_id] # NoEntry
                         THEN pendingUserMessagesRef[e.item_id] ELSE now,
                         e.transcript)]_vars

\* C4 witness: a user message created after an assistant message stands
\* right before it, the assistant message being the newer one by timestamp.
C4_Witness ==
  \E p \in 1..(Len(messages) - 1) :
    /\ messages[p].role = "user"
    /\ NewerAssistant(messages[p + 1], EmbeddedTs(messages[p]))
    /\ messages[p].n > messages[p + 1].n
    /\ p > 1

\* C5: when every item is announced before it is completed, each run of
\* consecutive messages of one role is non-decreasing in embedded timestamp.
C5_SameRoleRunsSorted ==
  \A i \in 1..(Len(messages) - 1) :
    messages[i].role = messages[i + 1].role
      => EmbeddedTs(messages[i]) <= EmbeddedTs(messages[i + 1])

\* C6: no two messages of the transcript have the same id.
C6_UniqueIds ==
  \A i, j \in 1..Len(messages) : i # j => messages[i].id # messages[j].id

\* C7: the content of an assistant message whose turn has been closed, and
\* of a user message, is the same after every step.
C7_ClosedContentStable ==
  [][\A i \in 1..Len(messages), j \in 1..Len(messages') :
       (/\ messages[i].n = messages'[j].n
        /\ (messages[i].n \in closedTurns \/ messages[i].role = "user"))
       => messages'[j].content = messages[i].content]_vars

\* The assistant message numbered serial is in msgs with this content.
TurnMessageIs(msgs, serial, text) ==
  \E i \in 1..Len(msgs) :
    /\ msgs[i].n = serial
    /\ msgs[i].role = "assistant"
    /\ msgs[i].content = text

\* C8: the deltas of a turn, from the one that found no current message up to
\* now, have added one assistant message, whose content is their fragments
\* concatenated in arrival order (the updates queued so far being applied).
C8_DeltaAccumulation ==
  [][/\ turnSerial' # 0 => TurnMessageIs(Settled'.messages, turnSerial', turnText')
     /\ \A e \in RecEvents :
          (/\ e.type = AssistantDelta
           /\ e.delta # ""
           /\ <<messages, updateQueue>>' # <<messages, updateQueue>>
           /\ handleServerEvent(1, e))
          => Len(Settled'.messages) = Len(Settled.messages) +
               (IF currentAssistantMessageIdRef = NoId THEN 1 ELSE 0)]_vars

\* C8 witness: two different fragments have arrived in the turn in progress
\* and its message, once rendered, reads "ab".
C8_Witness ==
  /\ turnSerial # 0
  /\ turnText = "ab"
  /\ updateQueue = <<>>
  /\ TurnMessageIs(messages, turnSerial, "ab")

\* C9: after a transcript-completed event with final text, handled while a
\* current assistant message exists, that message's content is the final text
\* once the queued updates are applied, and no message is current.
C9_CompletionOverwrite ==
  [][\A e \in RecEvents :
       (/\ e.type = AssistantDone
        /\ e.transcript # ""
        /\ currentAssistantMessageIdRef # NoId
        /\ handleServerEvent(1, e))
       => /\ currentAssistantMessageIdRef' = NoId
          /\ \E i \in 1..Len(Settled'.messages) :
               /\ Settled'.messages[i].n = turnSerial
               /\ Settled'.messages[i].content = e.transcript]_vars

\* C11: disconnect() changes neither the transcript nor the error: both are
\* after the call what they were before it, the error also once the queued
\* updates are applied, and the transcript then still has the same messages
\* in the same order.
C11_DisconnectKeepsTranscript ==
  [][disconnect =>
       /\ messages' = messages
       /\ error' = error
       /\ Settled'.error = Settled.error
       /\ [i \in 1..Len(Settled'.messages) |-> Settled'.messages[i].n]
            = [i \in 1..Len(Settled.messages) |-> Settled.messages[i].n]]_vars

\* C11 witness: disconnect() has run on a session that holds a transcript and
\* an error.
C11_Witness ==
  /\ lastOp.op = "disconnect"
  /\ messages # <<>>
  /\ error = FailedMsg

\* A transport callback of attempt a has reported an outcome: its peer
\* connection stands in a state only the callback's event leaves it in.
OutcomeReported(a) ==
  peerConnection[a] \in {"connected", "disconnected", "failed"}

\* C12: one connect attempt reports at most one outcome.  After a transport
\* callback of the attempt has been handled, its 45 s timer does not set the
\* timeout error or tear down; after its timer has fired, no transport
\* callback and no failure path of the attempt changes the error, reports an
\* error again or tears down again.
C12_OneOutcomePerAttempt ==
  [][\A a \in Attempts :
       /\ (OutcomeReported(a) /\ ConnectionTimeout(a))
            => /\ Settled'.error = Settled.error
               /\ UNCHANGED <<connectionRef, rtcVars>>
       /\ (/\ timer[a] = "fired"
           /\ \/ phase[a] # "failed" /\ phase'[a] = "failed"
              \/ \E s \in {"connected", "disconnected", "failed", "closed"} :
                    ConnectionStateChange(a, s))
            => /\ Settled'.error = Settled.error
               /\ lastOp'.op # "catch"
               /\ UNCHANGED <<audioElement, mediaStream, connectionRef>>]_vars

\* The state connect() of attempt a leaves behind when it has caught a
\* failure and set the message msg.
CaughtWith(a, msg) ==
  /\ phase[a] = "failed"
  /\ ~Settled.isConnecting
  /\ ~Settled.isConnected
  /\ Settled.error = msg
  /\ timer[a] # "pending"
  /\ connectionRef = 0

\* C13: every failure of connect() while opening the transport or signaling
\* is caught and leaves both flags false, the attempt's 45 s timer cancelled,
\* the handle null, and as error the abort text for an abort, the failure's
\* own message for another Error, and "Failed to connect" otherwise.
C13_ConnectCatchesFailures ==
  [][\A a \in Attempts :
       /\ MicDenied(a) => CaughtWith(a, MicDeniedMsg)'
       /\ SignalingFailed(a, "AbortError") => CaughtWith(a, AbortMsg)'
       /\ SignalingFailed(a, "Error") => CaughtWith(a, SessionMsg)'
       /\ SignalingFailed(a, "other") => CaughtWith(a, DefaultConnectMsg)'
       /\ (SignalingOk(a) /\ peerConnection[a] = "closed")
            => CaughtWith(a, ClosedPcMsg)']_vars

\* C13 restricted to failures of an attempt whose timer, if still pending, is
\* the tracked one: no later connect() has replaced it in the timer ref.
C13_WhenTimerTracked ==
  [][\A a \in Attempts :
       (timer[a] = "pending" => connectionTimeoutIdRef = a) =>
         /\ MicDenied(a) => CaughtWith(a, MicDeniedMsg)'
         /\ SignalingFailed(a, "AbortError") => CaughtWith(a, AbortMsg)'
         /\ SignalingFailed(a, "Error") => CaughtWith(a, SessionMsg)'
         /\ SignalingFailed(a, "other") => CaughtWith(a, DefaultConnectMsg)'
         /\ (SignalingOk(a) /\ peerConnection[a] = "closed")
              => CaughtWith(a, ClosedPcMsg)']_vars

\* The message the specification gives for a 429 answer with this body.
Expected429(body) ==
  IF body.json /\ body.detail.t = "object" /\ Truthy(body.detail.message)
  THEN body.detail.message.s
  ELSE IF body.json /\ body.detail.t = "string" THEN body.detail.s
  ELSE Fallback429Msg

\* C14: a 429 answer of the session endpoint fails the exchange with
\* detail.message when detail is an object with a message, with detail when
\* detail is a string, and with "Usage limit reached. Resets in 24 hours." in
\* every other case, a body that is empty or not JSON included.
C14_Message429 ==
  [][\A a \in Attempts, body \in Bodies :
       SessionResponse(a, 429, body)
         => Settled'.error = Expected429(body)]_vars

\* e is a usage-limit message.
IsLimitMsg(e) ==
  \E resetAt \in ResetInstants : e = LimitMsg(formatResetTime(resetAt))

\* C15: the limit-exceeded callback of a usage report runs once for the
\* report and leaves both flags false, the transport torn down and the
\* usage-limit message as error; the error then stays until connect() is
\* called again.
C15_LimitExceeded ==
  [][/\ \A resetAt \in ResetInstants :
          handleLimitExceeded(resetAt) =>
            /\ reportsInFlight' = reportsInFlight - 1
            /\ ~Settled'.isConnected
            /\ ~Settled'.isConnecting
            /\ Settled'.error = LimitMsg(formatResetTime(resetAt))
            /\ connectionRef' = 0
            /\ \A c \in Attempts : c = connectionRef => Released(c)'
     /\ (IsLimitMsg(Settled.error) /\ ~connect)
          => Settled'.error = Settled.error]_vars

\* C15 restricted, for the error staying, to states in which no connect() is
\* suspended, no timer is pending and no transport is left open.
C15_WhenNothingOutstanding ==
  [][/\ \A resetAt \in ResetInstants :
          handleLimitExceeded(resetAt) =>
            /\ reportsInFlight' = reportsInFlight - 1
            /\ ~Settled'.isConnected
            /\ ~Settled'.isConnecting
            /\ Settled'.error = LimitMsg(formatResetTime(resetAt))
            /\ connectionRef' = 0
            /\ \A c \in Attempts : c = connectionRef => Released(c)'
     /\ (/\ IsLimitMsg(Settled.error)
         /\ ~connect
         /\ \A a \in Attempts :
              /\ phase[a] \notin {"mic", "signaling"}
              /\ timer[a] # "pending"
              /\ peerConnection[a] \in {"none", "closed"})
          => Settled'.error = Settled.error]_vars

\* C16: a usage report that fails (network error, status not ok, unreadable
\* body) does not run the limit-exceeded callback and leaves the flags, the
\* error, the transcript, the handle and everything it refers to as they
\* were.
C16_FailedReportIsSilent ==
  [][\A resp \in ReportResponses :
       (resp.kind # "ok" /\ ReportAnswered(resp))
         => /\ lastOp'.op # "limitExceeded"
            /\ UNCHANGED <<stateVars, updateQueue, refVars, rtcVars, timer,
                           phase>>]_vars

\* C16 witness: a usage report has failed during a connected session.
C16_Witness ==
  /\ lastOp.op = "reportFailed"
  /\ isConnected
  /\ connectionRef # 0
  /\ dataChannel[connectionRef] = "open"

\* C17: a non-forced fetchUsage() made within 5 minutes of an earlier
\* non-forced call sends no request, whether the earlier call's answer has
\* been stored or its request is still in flight; a call made more than 5
\* minutes after the time of the cached value sends a request.
C17_OneRequestPerWindow ==
  [][fetchUsage(FALSE) =>
       /\ (\/ CacheFresh(now)
           \/ \E i \in 1..Len(usageFetches) :
                 /\ ~usageFetches[i].forced
                 /\ (now - usageFetches[i].at) < CACHE_DURATION_MS)
            => usageRequests' = usageRequests
       /\ (/\ cachedUsage # NoUsage
           /\ (now - cacheTimestamp) > CACHE_DURATION_MS
           /\ usageFetches = <<>>)
            => usageRequests' = usageRequests + 1]_vars

\* C18: an inbound channel message whose payload is not JSON is discarded:
\* the transcript, the flags, the error, the current assistant id and the
\* pending items are unchanged, also once the queued updates are applied, no
\* usage report starts, and the channel stays open for the events that
\* follow.
C18_UnparseableDiscarded ==
  [][\A payload \in NotJson :
       onDataChannelMessage(1, payload)
         => /\ UNCHANGED <<stateVars, updateQueue, refVars, reportsInFlight,
                           rtcVars, turnVars>>
            /\ Settled' = Settled]_vars

\* C18 witness: a payload that is not JSON has been discarded in the middle
\* of an assistant turn.
C18_Witness ==
  /\ lastOp.op = "discarded"
  /\ messages # <<>>
  /\ currentAssistantMessageIdRef # NoId
  /\ dataChannel[1] = "open"

\* e has a type the reconciler does not know, or a known type without the
\* fields its branch requires.
Unhandled(e) ==
  \/ e.type \notin {ItemAdded, UserTranscriptDone, AssistantDelta,
                    AssistantDone, ResponseDone, ItemCreated}
  \/ e.type = ItemAdded /\ (e.role # "user" \/ e.id = "")
  \/ e.type = UserTranscriptDone /\ (e.transcript = "" \/ e.item_id = "")
  \/ e.type = AssistantDelta /\ e.delta = ""
  \/ e.type = AssistantDone /\ e.transcript = ""
  \/ e.type = ItemCreated /\ (e.role # "assistant" \/ e.text = "")

\* C19: an event of an unknown type, or of a known type without its required
\* fields, leaves the transcript, the current assistant id and the pending
\* items unchanged, also once the queued updates are applied, and starts no
\* usage report.
C19_UnhandledEventIgnored ==
  [][\A e \in ChannelEvents :
       (/\ Unhandled(e)
        /\ lastOp'.op = "message"
        /\ lastOp'.type = e.type
        /\ onDataChannelMessage(1, [json |-> TRUE, value |-> e]))
         => /\ UNCHANGED <<messages, updateQueue, currentAssistantMessageIdRef,
                           pendingUserMessagesRef, reportsInFlight>>
            /\ Settled' = Settled]_vars

\* C19 witness: an event of unknown type has been handled while a turn was
\* in progress and a user item was pending.
C19_Witness ==
  /\ lastOp.op = "message"
  /\ lastOp.type = "session.updated"
  /\ messages # <<>>
  /\ currentAssistantMessageIdRef # NoId
  /\ \E i \in Items : pendingUserMessagesRef[i] # NoEntry

\* C20: the state the transport callback leaves, the queued updates applied:
\* "connected" gives connected, not connecting, no error; "failed" gives both
\* flags false and "Connection failed"; "disconnected" and "closed" give both
\* flags false and no error; "connecting" gives connecting; "new" changes
\* nothing; the transcript is the same after each of them.
C20_StateChangeMapping ==
  [][\A s \in TransportStates :
       ConnectionStateChange(1, s) =>
         /\ messages' = messages
         /\ Settled'.messages = Settled.messages
         /\ s = "connected" =>
              /\ Settled'.isConnected
              /\ ~Settled'.isConnecting
              /\ Settled'.error = NULL
         /\ s = "failed" =>
              /\ ~Settled'.isConnected
              /\ ~Settled'.isConnecting
              /\ Settled'.error = FailedMsg
         /\ s \in {"disconnected", "closed"} =>
              /\ ~Settled'.isConnected
              /\ ~Settled'.isConnecting
              /\ Settled'.error = NULL
         /\ s = "connecting" => Settled'.isConnecting
         /\ s = "new" => Settled' = Settled /\ UNCHANGED stateVars]_vars

\* C20 witness: the transport of a session with a transcript has reported
\* "failed" after having been connected, and the state shows the failure.
C20_Witness ==
  /\ lastOp.op = "stateChange"
  /\ peerConnection[1] = "failed"
  /\ messages # <<>>
  /\ updateQueue = <<>>
  /\ error = FailedMsg
  /\ ~isConnected

\* C21: a connect() call that goes on to open a transport leaves, the queued
\* updates applied, no error and isConnecting true, whatever the state held
\* before the call.
C21_ConnectClearsError ==
  [][(connect /\ nAttempts' # nAttempts)
       => /\ Settled'.error = NULL
          /\ Settled'.isConnecting]_vars

\* The text the specification gives for a reset instant: "in 24 hours" when
\* the instant is no date, "now" when it is not in the future.
ExpectedResetText(diff) ==
  IF diff.nan THEN "in 24 hours"
  ELSE IF diff.ms <= 0 THEN "now"
  ELSE formatResetTime(diff)

\* C22: formatResetTime gives "in 24 hours" for a reset instant that is no
\* date, a missing one included, and "now" for one that is not in the
\* future; the usage-limit message is built from that text.
C22_ResetTimeFallbacks ==
  [][\A resetAt \in ResetCases :
       handleLimitExceeded(resetAt)
         => Settled'.error = LimitMsg(ExpectedResetText(resetAt))]_vars

\* C23: sendEvent writes the event's JSON text to the channel of the stored
\* connection exactly when a connection is stored and its channel is open;
\* otherwise nothing is written, then or later: the written texts change in
\* no other step, so nothing is kept to be sent when the channel opens.
\* Either way the connection state is what it was.
C23_SendOnlyWhenOpen ==
  [][/\ \A event \in ClientEvents :
          sendEvent(event) =>
            /\ IF connectionRef # 0 /\ dataChannel[connectionRef] = "open"
               THEN sentEvents' = Append(sentEvents,
                                         [channel |-> connectionRef,
                                          data |-> Stringify(event)])
               ELSE sentEvents' = sentEvents
            /\ UNCHANGED <<stateVars, updateQueue, refVars, rtcVars, timer,
                           phase>>
     /\ sentEvents' # sentEvents =>
          /\ lastOp'.op = "sendEvent"
          /\ connectionRef # 0
          /\ dataChannel[connectionRef] = "open"]_vars

\* C23 witness: an event has been written to an open channel, a later one
\* was dropped because the channel of the stored connection had closed, and
\* the written texts are still the first event alone.
C23_Witness ==
  /\ lastOp.op = "sendDropped"
  /\ Len(sentEvents) = 1
  /\ connectionRef # 0
  /\ dataChannel[connectionRef] = "closed"

\* C24: after a response.done event whose envelope carries an assistant
\* audio transcript, handled while a current assistant message exists, that
\* message's content is the envelope's transcript once the queued updates
\* are applied.
C24_ResponseDoneOverwrite ==
  [][\A e \in RecEvents :
       (/\ e.type = ResponseDone
        /\ e.transcript # ""
        /\ currentAssistantMessageIdRef # NoId
        /\ handleServerEvent(1, e))
       => \E i \in 1..Len(Settled'.messages) :
            /\ Settled'.messages[i].n = turnSerial
            /\ Settled'.messages[i].content = e.transcript]_vars

\* C25: after a response.done event, whatever its envelope carries, no
\* assistant message is current; the assistant delta that comes next, finding
\* none current, adds one message holding its fragment at the end of the
\* transcript and makes it the current one.
C25_ResponseDoneClearsCurrent ==
  [][\A e \in TurnEvents :
       /\ (e.type = ResponseDone /\ handleServerEvent(1, e))
            => currentAssistantMessageIdRef' = NoId
       /\ (/\ e.type = AssistantDelta
           /\ turnSerial = 0
           /\ turnSerial' # 0
           /\ handleServerEvent(1, e))
            => /\ currentAssistantMessageIdRef = NoId
               /\ currentAssistantMessageIdRef' # NoId
               /\ Len(Settled'.messages) = Len(Settled.messages) + 1
               /\ Settled'.messages[Len(Settled'.messages)].content = e.delta
               /\ Settled'.messages[Len(Settled'.messages)].role = "assistant"
               /\ Settled'.messages[Len(Settled'.messages)].n = turnSerial'
               /\ \A i \in 1..Len(Settled.messages) :
                    Settled'.messages[i].n = Settled.messages[i].n]_vars

\* C25 witness: a second assistant turn has started after the first was
\* closed while its message held one fragment: two messages, each holding the
\* fragment of its own turn.
C25_Witness ==
  /\ Len(messages) = 2
  /\ updateQueue = <<>>
  /\ closedTurns = {1}
  /\ turnSerial = 2
  /\ messages[1].content = "a"
  /\ messages[2].content = "a"
  /\ currentAssistantMessageIdRef # NoId

\* C26: a response.done event whose envelope carries a total-token count
\* starts exactly one usage report, carrying that count; a response.done
\* event without a count, and an event of any other type, starts none.
C26_OneReportPerCount ==
  [][\A e \in TurnEvents :
       handleServerEvent(1, e) =>
         IF e.type = ResponseDone /\ e.total_tokens # NoCount
         THEN /\ reportsInFlight' = reportsInFlight + 1
              /\ EventEffect(e).tokens = e.total_tokens
         ELSE reportsInFlight' = reportsInFlight]_vars

\* C26 restricted to envelopes whose count, when there is one, is not zero.
C26_WhenCountPositive ==
  [][\A e \in TurnEvents :
       (handleServerEvent(1, e)
          /\ ~(e.type = ResponseDone /\ e.total_tokens = 0)) =>
         IF e.type = ResponseDone /\ e.total_tokens # NoCount
         THEN /\ reportsInFlight' = reportsInFlight + 1
              /\ EventEffect(e).tokens = e.total_tokens
         ELSE reportsInFlight' = reportsInFlight]_vars

\* C27: a transcript-completed event with final text, handled while no
\* assistant message is current, appends one assistant message with that text
\* at the end of the transcript (the queued updates applied), leaves no message
\* current, and leaves every message that was there as it was.
C27_DoneWithoutDeltasAppends ==
  [][\A e \in RecEvents :
       (/\ e.type = AssistantDone
        /\ e.transcript # ""
        /\ currentAssistantMessageIdRef = NoId
        /\ handleServerEvent(1, e))
       => /\ currentAssistantMessageIdRef' = NoId
          /\ Len(Settled'.messages) = Len(Settled.messages) + 1
          /\ SubSeq(Settled'.messages, 1, Len(Settled.messages))
               = Settled.messages
          /\ LET m == Settled'.messages[Len(Settled'.messages)]
             IN /\ m.role = "assistant"
                /\ m.content = e.transcript
                /\ m.id = MessageId("assistant", now)]_vars

\* C27 witness: the transcript ends with an assistant message holding a final
\* text that no delta preceded, after a user message that was there before;
\* no message is current.
C27_Witness ==
  /\ Len(messages) = 2
  /\ updateQueue = <<>>
  /\ messages[1].role = "user"
  /\ messages[1].n = 1
  /\ messages[2].role = "assistant"
  /\ messages[2].content = "F"
  /\ currentAssistantMessageIdRef = NoId
  /\ closedTurns = {}

\* C28: the announcement of a user item X records X in the pending items with
\* the time of the announcement.  After a completed transcription for X, the
\* queued updates applied, the pending items have no entry for X and the
\* message made for X has the id user-<T>, T being the time recorded for X, or
\* the current time when nothing is recorded for X.  Both leave the entries
\* of the other items as they were.
C28_PendingItemLifecycle ==
  [][\A e \in RecEvents :
       /\ (/\ e.type = ItemAdded
           /\ e.role = "user"
           /\ e.id # ""
           /\ <<messages, updateQueue>>' = <<messages, updateQueue>>
           /\ handleServerEvent(1, e))
            => /\ pendingUserMessagesRef'[e.id] = now
               /\ \A y \in Items \ {e.id} :
                    pendingUserMessagesRef'[y] = pendingUserMessagesRef[y]
       /\ (/\ e.type = UserTranscriptDone
           /\ e.transcript # ""
           /\ e.item_id # ""
           /\ <<messages, updateQueue>>' # <<messages, updateQueue>>
           /\ handleServerEvent(1, e))
            => LET T == IF pendingUserMessagesRef[e.item_id] # NoEntry
                        THEN pendingUserMessagesRef[e.item_id] ELSE now
               IN /\ Settled'.pend[e.item_id] = NoEntry
                  /\ \A y \in Items \ {e.item_id} :
                       Settled'.pend[y] = Settled.pend[y]
                  /\ \E i \in 1..Len(Settled'.messages) :
                       /\ Settled'.messages[i].n = Len(Settled.messages) + 1
                       /\ Settled'.messages[i].id = MessageId("user", T)
                       /\ Settled'.messages[i].content = e.transcript]_vars

\* C28 witness: the transcript holds a user message whose id carries a time
\* before the current one, its item is no longer pending, and another item
\* announced since is still pending with its own time.
C28_Witness ==
  /\ updateQueue = <<>>
  /\ now = 2
  /\ \E i \in 1..Len(messages) :
       messages[i].role = "user" /\ EmbeddedTs(messages[i]) = 1
  /\ pendingUserMessagesRef["x"] = NoEntry
  /\ pendingUserMessagesRef["y"] = 2

\* C29: with a clock that never goes back, for every user message u and
\* assistant message a of the transcript: when a's embedded timestamp is
\* strictly greater than u's, u stands before a; when a stands before u, a's
\* embedded timestamp is at most u's.
C29_CausalOrder ==
  \A i, j \in 1..Len(messages) :
    (messages[i].role = "user" /\ messages[j].role = "assistant") =>
      /\ EmbeddedTs(messages[j]) > EmbeddedTs(messages[i]) => i < j
      /\ j < i => EmbeddedTs(messages[j]) <= EmbeddedTs(messages[i])

\* C29 witness: a user message created after two assistant messages stands
\* between them: after the one that is not newer than it, before the one
\* that is.
C29_Witness ==
  /\ Len(messages) = 3
  /\ messages[1].role = "assistant"
  /\ messages[2].role = "user"
  /\ messages[3].role = "assistant"
  /\ EmbeddedTs(messages[1]) <= EmbeddedTs(messages[2])
  /\ EmbeddedTs(messages[3]) > EmbeddedTs(messages[2])
  /\ messages[2].n = 3

\* C30: the 45 s timer of attempt a is no longer pending after the transport
\* of a has reported connected, disconnected, failed or closed, after
\* connect() of a has failed, and after disconnect(), which leaves no timer
\* of any attempt pending, so that no timeout follows it unless connect() is
\* called again.
C30_TimerCancelled ==
  [][/\ \A a \in Attempts :
          /\ (\E s \in {"connected", "disconnected", "failed", "closed"} :
                 ConnectionStateChange(a, s))
               => timer'[a] # "pending"
          /\ (phase[a] # "failed" /\ phase'[a] = "failed")
               => timer'[a] # "pending"
     /\ disconnect => \A a \in Attempts : timer'[a] # "pending"]_vars

\* C30 restricted to states in which every pending timer is the tracked one.
C30_WhenTimersTracked ==
  [][(\A b \in Attempts : timer[b] = "pending" => connectionTimeoutIdRef = b)
       => /\ \A a \in Attempts :
               /\ (\E s \in {"connected", "disconnected", "failed", "closed"} :
                      ConnectionStateChange(a, s))
                    => timer'[a] # "pending"
               /\ (phase[a] # "failed" /\ phase'[a] = "failed")
                    => timer'[a] # "pending"
          /\ disconnect => \A a \in Attempts : timer'[a] # "pending"]_vars

\* The message the specification gives for an answer with this body and a
\* status that is neither ok nor 429.
ExpectedSessionError(body) ==
  IF ~body.json THEN SessionMsg
  ELSE IF body.detail.t = "object" /\ Truthy(body.detail.message)
       THEN body.detail.message.s
  ELSE IF body.detail.t = "string" /\ Truthy(body.detail) THEN body.detail.s
  ELSE IF Truthy(body.error) THEN body.error.s
  ELSE SessionMsg

\* C31: an answer of the session endpoint with a status that is neither ok
\* nor 429 fails the exchange with the first available of detail.message,
\* detail as a string, the payload's error string, and with "Failed to create
\* session" when there is none, a body that is empty or not JSON included.
C31_SessionErrorMessage ==
  [][\A a \in Attempts, body \in Bodies :
       SessionResponse(a, 500, body)
         => Settled'.error = ExpectedSessionError(body)]_vars

\* C31 restricted to bodies that are JSON.
C31_WhenBodyIsJson ==
  [][\A a \in Attempts, body \in Bodies :
       (body.json /\ SessionResponse(a, 500, body))
         => Settled'.error = ExpectedSessionError(body)]_vars

\* C32: an answer to fetchUsage that is not a success (network error, status
\* not ok) leaves the cached value and its timestamp as they were; a success
\* stores the value it returns, and that value is then fresh, so that a
\* non-forced call returns it, at every instant of the 5 minutes that
\* follow.
C32_FetchFailureKeepsCache ==
  [][\A i \in 1..MaxFetches, resp \in FetchResponses :
       FetchAnswered(i, resp) =>
         IF resp.ok
         THEN /\ cachedUsage' = resp.data
              /\ \A t \in UsageInstants :
                   (t >= now /\ (t - now) < CACHE_DURATION_MS)
                     => (t - cacheTimestamp') < CACHE_DURATION_MS
         ELSE UNCHANGED <<cachedUsage, cacheTimestamp>>]_vars

\* C32 with the 5 minutes counted from the call that sent the request.
C32_FreshFromTheCall ==
  [][\A i \in 1..MaxFetches, resp \in FetchResponses :
       FetchAnswered(i, resp) =>
         IF resp.ok
         THEN /\ cachedUsage' = resp.data
              /\ \A t \in UsageInstants :
                   (t >= usageFetches[i].at
                      /\ (t - usageFetches[i].at) < CACHE_DURATION_MS)
                     => (t - cacheTimestamp') < CACHE_DURATION_MS
         ELSE UNCHANGED <<cachedUsage, cacheTimestamp>>]_vars

\* disconnect() has just returned while attempt a is suspended at microphone
\* acquisition or at the signaling request.
DisconnectedWhileSuspended(a) ==
  lastOp.op = "disconnect" /\ phase[a] \in {"mic", "signaling"}

\* Attempt a is not behind the handle, holds no live microphone track and no
\* open peer connection, and, once its connect() has run to its end, holds
\* nothing at all.
StaysCancelled(a) ==
  /\ connectionRef # a
  /\ mediaStream[a] # "live"
  /\ peerConnection[a] \in {"none", "closed"}
  /\ phase[a] \in {"done", "failed"} => Released(a)

\* C33: a disconnect() made while a connect attempt is suspended at
\* microphone acquisition or signaling cancels it: in the step that follows,
\* whatever it is, that attempt does not store its transport in the handle,
\* has no live microphone track and no open peer connection, and keeps
\* nothing once its connect() has run to its end.
C33_DisconnectCancelsAttempt ==
  [][\A a \in Attempts :
       DisconnectedWhileSuspended(a) => StaysCancelled(a)']_vars

\* C34: every transport that has been created and not cleaned up (its peer
\* connection is not closed, or its microphone track is live) is the one
\* behind the connection handle, so that at most one is live.
C34_OneLiveTransport ==
  \A a \in Attempts :
    (peerConnection[a] \notin {"none", "closed"} \/ mediaStream[a] = "live")
      => connectionRef = a

\* C35: when the event channel of a session opens and no other session's
\* channel is open, so that the events that follow are the first of a new
\* session, no assistant message is current and no user item is pending,
\* however the earlier session ended.
C35_NewSessionStartsClean ==
  [][\A a \in Attempts :
       (/\ DataChannelOpen(a)
        /\ \A b \in Attempts \ {a} : dataChannel[b] # "open")
       => /\ currentAssistantMessageIdRef = NoId
          /\ pendingUserMessagesRef = EmptyPending]_vars

\* C35 restricted to sessions that follow a session ended by disconnect().
C35_AfterDisconnect ==
  [][\A a \in Attempts :
       (/\ DataChannelOpen(a)
        /\ \A b \in Attempts \ {a} :
             peerConnection[b] \in {"none", "closed"})
       => /\ currentAssistantMessageIdRef = NoId
          /\ pendingUserMessagesRef = EmptyPending]_vars

\* C36: a limit-exceeded answer to a usage report of an earlier session leaves
\* a new session alone. When the answer arrives while the handle refers to a
\* session whose event channel has not opened yet (it has received no event
\* and issued no report) and every other session has been released, that session's
\* transport, the handle, the flags and the error stay as they were.
C36_LateLimitAnswerIsIgnored ==
  [][\A a \in Attempts :
       (/\ lastOp'.op = "limitExceeded"
        /\ connectionRef = a
        /\ dataChannel[a] = "connecting"
        /\ \A b \in Attempts \ {a} : Released(b))
       => /\ connectionRef' = a
          /\ peerConnection'[a] = peerConnection[a]
          /\ Settled'.isConnecting = Settled.isConnecting
          /\ Settled'.isConnected = Settled.isConnected
          /\ Settled'.error = Settled.error]_vars

\* C36 for the session that issued the report, which is the only one there
\* has been: the limit-exceeded answer ends it.
C36_OwnSessionEnds ==
  [][(lastOp'.op = "limitExceeded" /\ nAttempts = 1)
       => /\ connectionRef' = 0
          /\ peerConnection'[1] \in {"none", "closed"}
          /\ ~Settled'.isConnected]_vars

\* C37: when the microphone is refused (or no device exists), nothing the
\* attempt acquired is left once its catch block has run: in particular the
\* audio sink element appended before the microphone was asked for is
\* removed from the document.
C37_MicFailureReleasesSink ==
  [][\A a \in Attempts :
       MicDenied(a) => /\ audioElement'[a] # "attached"
                       /\ mediaStream'[a] # "live"
                       /\ peerConnection'[a] \in {"none", "closed"}
                       /\ dataChannel'[a] \in {"none", "closed"}]_vars

\* C37 without the audio sink: no stream, peer connection or channel of the
\* attempt exists after the microphone was refused.
C37_NoTransportLeft ==
  [][\A a \in Attempts :
       MicDenied(a) => /\ mediaStream'[a] # "live"
                       /\ peerConnection'[a] \in {"none", "closed"}
                       /\ dataChannel'[a] \in {"none", "closed"}]_vars

\* C38: whenever the state says connected (all queued updates applied), the
\* handle is set and its transport is in state connected; whenever the
\* handle is null, the state does not say connected.
C38_ConnectedMeansLiveHandle ==
  /\ Settled.isConnected
       => connectionRef # 0 /\ peerConnection[connectionRef] = "connected"
  /\ connectionRef = 0 => ~Settled.isConnected

\* C38, second half, while only one connect() call has been made: a null
\* handle comes with a state that does not say connected.
C38_NullHandleOneAttempt ==
  (nAttempts = 1 /\ connectionRef = 0) => ~Settled.isConnected

\* The content message m has after event e was handled, every queued update
\* applied: e's fragment appended or e's final text written when m is the
\* message that was current when e arrived, and m's content otherwise.
ContentAfter(e, m) ==
  IF currentAssistantMessageIdRef = NoId \/ m.n # turnSerial THEN m.content
  ELSE IF e.type = AssistantDelta THEN m.content \o e.delta
  ELSE IF e.type \in {AssistantDone, ResponseDone} /\ e.transcript # ""
       THEN e.transcript
  ELSE m.content

\* C39: every change of the transcript that an event asks for (a fragment
\* appended, a final text written) reaches the message that was current when
\* the event was handled, and no other, whenever the queued updates are
\* applied: after each event, with the updates queued so far applied, every
\* message reads what it read before plus what this event asked for.
C39_MutationsReachTheirMessage ==
  [][\A e \in RecEvents :
       (lastOp'.op = "event" /\ handleServerEvent(1, e))
       => \A i \in 1..Len(Settled.messages), j \in 1..Len(Settled'.messages) :
            Settled.messages[i].n = Settled'.messages[j].n
              => Settled'.messages[j].content
                   = ContentAfter(e, Settled.messages[i])]_vars

\* C39 for events whose update is applied at once, on a transcript whose
\* ids are distinct.
C39_WhenAppliedAtOnce ==
  [][\A e \in RecEvents :
       (/\ lastOp'.op = "event"
        /\ updateQueue = <<>> /\ updateQueue' = <<>>
        /\ C6_UniqueIds
        /\ handleServerEvent(1, e))
       => \A i \in 1..Len(messages), j \in 1..Len(messages') :
            messages[i].n = messages'[j].n
              => messages'[j].content = ContentAfter(e, messages[i])]_vars

====
